---------------------------- MODULE Spec2Model ----------------------------
(***************************************************************************)
(* Model of inbenta_api_signature/__init__.py: the SignatureClient facade, *)
(* the SignatureAdapter built by __createAdapter, and the module-level     *)
(* changeBaseHTTPAdapter.  The protocol classes (BaseVersion, V1) live in  *)
(* inbenta_api_signature/protocol.py; they are modelled symbolically: a    *)
(* keyed digest is the pair of its key and the canonical message.          *)
(***************************************************************************)
EXTENDS Naturals, Sequences, FiniteSets, TLC

(***************************************************************************)
(* Bounds of the model.                                                    *)
(***************************************************************************)
MaxClock == 1
MaxExchanges == 2
MaxClasses == 4

(***************************************************************************)
(* Python values handed to the constructor as signatureVersion.  Each      *)
(* carries its kind and str(value) as a sequence of characters.            *)
(***************************************************************************)
PyNone == [kind |-> "none", str |-> <<"N", "o", "n", "e">>]
PyStr(s) == [kind |-> "str", str |-> s]
PyInt0 == [kind |-> "int", str |-> <<"0">>]
PyInt1 == [kind |-> "int", str |-> <<"1">>]
PyFalse == [kind |-> "bool", str |-> <<"F", "a", "l", "s", "e">>]
PyTrue == [kind |-> "bool", str |-> <<"T", "r", "u", "e">>]
PyEmptyList == [kind |-> "list", str |-> <<"[", "]">>]
PyObject == [kind |-> "object", str |-> <<"<", "o", "b", "j", ">">>]
PyObjectNamedV1 == [kind |-> "object", str |-> <<"V", "1">>]

\* Python truth value of a value (bool(x)).
Truthy(v) ==
    CASE v.kind = "none" -> FALSE
      [] v.kind = "str" -> v.str # <<>>
      [] v.kind = "int" -> v.str # <<"0">>
      [] v.kind = "bool" -> v.str = <<"T", "r", "u", "e">>
      [] v.kind = "list" -> v.str # <<"[", "]">>
      [] OTHER -> TRUE

\* str.lower(), character by character.
LowerChar(c) ==
    CASE c = "V" -> "v"
      [] c = "N" -> "n"
      [] c = "F" -> "f"
      [] c = "T" -> "t"
      [] OTHER -> c

\* Faulty variant of Lower: the .lower() call left out.
LowerKeepsCase(s) == s

Lower(s) == [i \in DOMAIN s |-> LowerChar(s[i])]

(***************************************************************************)
(* protocol.py: BaseVersion instances.                                     *)
(***************************************************************************)
Keys == {"k1", "k2"}
BaseUrls == {"none", "https://h"}

V1(signatureKey, baseUrl) ==
    [kind |-> "proto", str |-> <<"<", "V", "1", ">">>, cls |-> "V1",
     key |-> signatureKey, baseUrl |-> baseUrl]

\* An instance of another BaseVersion subclass, built by the caller.
CustomProtocol ==
    [kind |-> "proto", str |-> <<"<", "C", ">">>, cls |-> "Custom",
     key |-> "k2", baseUrl |-> "none"]

IsBaseVersion(v) == v.kind = "proto"

ProtocolHeader(p) == IF p.cls = "V1" THEN "x-inbenta-signature" ELSE "x-custom-signature"

\* Timestamps: None, or the string of a clock reading.
NoneTs == [kind |-> "none", t |-> 0]
Timestamp(t) == [kind |-> "str", t |-> t]

ProtocolGenTimestamp(p, now) == Timestamp(now)

Hmac(key, msg) == [kind |-> "sig", key |-> key, msg |-> msg]

CanonicalRequest(url, method, params, body, timestamp) ==
    [form |-> "request", url |-> url, method |-> method, params |-> params,
     body |-> body, timestamp |-> timestamp]

CanonicalResponse(body, timestamp) ==
    [form |-> "response", body |-> body, timestamp |-> timestamp]

\* A missing timestamp is generated at signing time.
ProtocolSignRequest(p, url, method, params, body, timestamp, now) ==
    LET ts == IF timestamp.kind = "none" THEN ProtocolGenTimestamp(p, now) ELSE timestamp
    IN Hmac(p.key, CanonicalRequest(url, method, params, body, ts))

ProtocolGetHeaders(p, signature) ==
    [kind |-> "headers", name |-> ProtocolHeader(p), value |-> signature]

\* The digest a signer holding key computes over a response.
ResponseSignature(key, body, timestamp) == Hmac(key, CanonicalResponse(body, timestamp))

\* True only on an exact match with the recomputed digest; a mismatch, a value
\* that is no digest, or a missing timestamp gives False.
ProtocolValidateResponse(p, signature, body, timestamp) ==
    /\ signature.kind = "sig"
    /\ timestamp.kind = "str"
    /\ signature.key = p.key
    /\ signature.msg.form = "response"
    /\ signature.msg = CanonicalResponse(body, timestamp)

(***************************************************************************)
(* SignatureClient                                                         *)
(***************************************************************************)
\* The dictionary literal of __init__ and its .get(): None when the key is absent.
VersionRegistry(signatureKey, baseUrl) ==
    [name \in {<<"v", "1">>} |-> V1(signatureKey, baseUrl)]

DictGet(d, k) == IF k \in DOMAIN d THEN d[k] ELSE PyNone

\* Faulty variant of ClientInit: the isinstance test left out, every selector
\* looked up by its str().
ClientInitAlwaysLooksUp(signatureKey, baseUrl, signatureVersion) ==
    LET defaulted == IF Truthy(signatureVersion) THEN signatureVersion
                     ELSE PyStr(<<"v", "1">>)
        chosen == DictGet(VersionRegistry(signatureKey, baseUrl), Lower(defaulted.str))
    IN IF ~Truthy(chosen)
       THEN [raised |-> "ValueError", v1Built |-> TRUE, _signProtocol |-> PyNone]
       ELSE [raised |-> "none", v1Built |-> TRUE, _signProtocol |-> chosen]

\* SignatureClient.__init__: the outcome of one construction.
ClientInit(signatureKey, baseUrl, signatureVersion) ==
    LET defaulted == IF Truthy(signatureVersion) THEN signatureVersion
                     ELSE PyStr(<<"v", "1">>)
        looksUp == ~IsBaseVersion(defaulted)
        chosen == IF looksUp
                  THEN DictGet(VersionRegistry(signatureKey, baseUrl), Lower(defaulted.str))
                  ELSE defaulted
    IN IF ~Truthy(chosen)
       THEN [raised |-> "ValueError", v1Built |-> looksUp, _signProtocol |-> PyNone]
       ELSE [raised |-> "none", v1Built |-> looksUp, _signProtocol |-> chosen]

ClientSignatureHeader(c) == ProtocolHeader(c._signProtocol)

ClientGenTimestamp(c, now) == ProtocolGenTimestamp(c._signProtocol, now)

ClientSignRequest(c, url, params, body, method, timestamp, now) ==
    LET signature == ProtocolSignRequest(c._signProtocol, url, method, params, body,
                                         timestamp, now)
    IN ProtocolGetHeaders(c._signProtocol, signature)

\* Faulty variant of ClientValidateResponse: the timestamp not handed on.
ClientValidateResponseNoTimestamp(c, signature, body, timestamp) ==
    ProtocolValidateResponse(c._signProtocol, signature, body, NoneTs)

ClientValidateResponse(c, signature, body, timestamp) ==
    ProtocolValidateResponse(c._signProtocol, signature, body, timestamp)

(***************************************************************************)
(* State of a program that constructs a client and then uses it.           *)
(***************************************************************************)
VARIABLES
    pc,          \* "init", "ready" (a client exists) or "failed" (__init__ raised)
    client,      \* the client object: its _signProtocol
    ctor,        \* the arguments and outcome of the construction
    clock,       \* the system clock genTimestamp reads
    signed,      \* the last signRequest call on the client and its result
    call,        \* the last other call on the client since then, and its result
    adapter,     \* a SignatureAdapter instance: _client and _timestamp
    exch,        \* the exchanges sent through the adapter
    SignatureAdapter,  \* the module-level binding of that name
    created,     \* the number of adapter classes __createAdapter has made
    accepted,    \* the last class changeBaseHTTPAdapter accepted
    modCall      \* the last changeBaseHTTPAdapter call and its outcome

clientVars == <<pc, client, ctor, signed, call>>
adapterVars == <<adapter, exch>>
moduleVars == <<SignatureAdapter, created, accepted, modCall>>
vars == <<pc, client, ctor, clock, signed, call, adapter, exch,
          SignatureAdapter, created, accepted, modCall>>

Selectors ==
    {PyNone, PyStr(<<"v", "1">>), PyStr(<<"V", "1">>), PyStr(<<"v", "2">>), PyStr(<<>>),
     PyInt0, PyInt1, PyFalse, PyTrue, PyEmptyList, PyObject, PyObjectNamedV1,
     V1("k2", "none"), CustomProtocol}

Urls == {"https://h/p?foo=bar"}
Params == {"none", "foo=bar"}
Methods == {"GET", "POST"}
Bodies == {"", "b"}
Timestamps == {NoneTs} \cup {Timestamp(t) : t \in 0..MaxClock}

NoClient == [_signProtocol |-> PyNone]
NoCtor == [signatureKey |-> "", baseUrl |-> "", signatureVersion |-> PyNone,
           raised |-> "none", v1Built |-> FALSE]
NoSigned == [done |-> FALSE]
NoCall == [op |-> "none"]

ClientInitState ==
    /\ pc = "init"
    /\ client = NoClient
    /\ ctor = NoCtor
    /\ clock = 0
    /\ signed = NoSigned
    /\ call = NoCall

\* c = SignatureClient(signatureKey, baseUrl, signatureVersion)
ConstructFrom(baseUrls, selectors) ==
    /\ pc \in {"init", "failed"}
    /\ \E signatureKey \in Keys, baseUrl \in baseUrls, signatureVersion \in selectors :
         LET r == ClientInit(signatureKey, baseUrl, signatureVersion)
         IN /\ ctor' = [signatureKey |-> signatureKey, baseUrl |-> baseUrl,
                        signatureVersion |-> signatureVersion,
                        raised |-> r.raised, v1Built |-> r.v1Built]
            /\ IF r.raised = "none"
               THEN /\ pc' = "ready"
                    /\ client' = [_signProtocol |-> r._signProtocol]
               ELSE /\ pc' = "failed"
                    /\ client' = NoClient
    /\ UNCHANGED <<clock, signed, call, adapterVars, moduleVars>>

Construct == ConstructFrom(BaseUrls, Selectors)

\* The same, with fewer arguments to choose from.
ConstructSome ==
    ConstructFrom({"none"}, {PyNone, PyStr(<<"v", "2">>), CustomProtocol})

Tick ==
    /\ clock < MaxClock
    /\ clock' = clock + 1
    /\ UNCHANGED <<clientVars, adapterVars, moduleVars>>

\* c.SIGNATURE_HEADER
ReadSignatureHeader ==
    /\ pc = "ready"
    /\ call' = [op |-> "SIGNATURE_HEADER", result |-> ClientSignatureHeader(client)]
    /\ UNCHANGED <<pc, client, ctor, clock, signed, adapterVars, moduleVars>>

\* c.genTimestamp()
GenTimestamp ==
    /\ pc = "ready"
    /\ call' = [op |-> "genTimestamp", now |-> clock,
                result |-> ClientGenTimestamp(client, clock)]
    /\ UNCHANGED <<pc, client, ctor, clock, signed, adapterVars, moduleVars>>

\* Faulty variant of SignRequest: the call rebinds the client to a protocol
\* built for it.
SignRequestRebinds ==
    /\ pc = "ready"
    /\ \E url \in Urls, params \in Params, body \in Bodies, method \in Methods,
          timestamp \in Timestamps :
         /\ client' = [_signProtocol |-> V1("k0", url)]
         /\ signed' = [done |-> TRUE, url |-> url, params |-> params, body |-> body,
                       method |-> method, timestamp |-> timestamp,
                       result |-> ClientSignRequest(client', url, params, body, method,
                                                    timestamp, clock)]
    /\ call' = NoCall
    /\ UNCHANGED <<pc, ctor, clock, adapterVars, moduleVars>>

\* c.signRequest(url, params, body, method, timestamp)
SignRequest ==
    /\ pc = "ready"
    /\ \E url \in Urls, params \in Params, body \in Bodies, method \in Methods,
          timestamp \in Timestamps :
         signed' = [done |-> TRUE, url |-> url, params |-> params, body |-> body,
                    method |-> method, timestamp |-> timestamp,
                    result |-> ClientSignRequest(client, url, params, body, method,
                                                 timestamp, clock)]
    /\ call' = NoCall
    /\ UNCHANGED <<pc, client, ctor, clock, adapterVars, moduleVars>>

\* The values a caller may hand to validateResponse as the signature: what
\* signRequest returned, the header value in it, the digest of a response under
\* the client's key or another key, or some other text.
SignatureCandidates(body, timestamp) ==
    (IF signed.done
     THEN {[src |-> "signRequest result", signature |-> signed.result],
           [src |-> "signRequest header value", signature |-> signed.result.value]}
     ELSE {})
    \cup {[src |-> "response signature",
           signature |-> ResponseSignature(client._signProtocol.key, b, t)] :
             b \in Bodies, t \in Timestamps \ {NoneTs}}
    \cup {[src |-> "other key", signature |-> ResponseSignature("k0", body, timestamp)],
          [src |-> "text", signature |-> [kind |-> "text", s |-> "abc"]]}

\* c.validateResponse(signature, body, timestamp)
ValidateResponse ==
    /\ pc = "ready"
    /\ \E body \in Bodies, timestamp \in Timestamps :
         \E cand \in SignatureCandidates(body, timestamp) :
            call' = [op |-> "validateResponse", src |-> cand.src,
                     signature |-> cand.signature, body |-> body, timestamp |-> timestamp,
                     result |-> ClientValidateResponse(client, cand.signature, body,
                                                       timestamp)]
    /\ UNCHANGED <<pc, client, ctor, clock, signed, adapterVars, moduleVars>>

(***************************************************************************)
(* SignatureAdapter, the class __createAdapter builds.                     *)
(***************************************************************************)
\* SignatureAdapter.__init__
AdapterInit(signatureKey, baseUrl, signatureVersion) ==
    [_client |-> [_signProtocol |->
                     ClientInit(signatureKey, baseUrl, signatureVersion)._signProtocol],
     _timestamp |-> NoneTs]

\* Faulty variant of AddHeadersStamp: the timestamp generated only while none
\* is stored.
AddHeadersStampOnce(a, now) ==
    IF a._timestamp.kind = "none"
    THEN [a EXCEPT !._timestamp = ClientGenTimestamp(a._client, now)]
    ELSE a

\* add_headers, first statement: self._timestamp = self._client.genTimestamp()
AddHeadersStamp(a, now) == [a EXCEPT !._timestamp = ClientGenTimestamp(a._client, now)]

\* add_headers, second statement: the headers signRequest returns, signed with
\* the timestamp read from self._timestamp; no params are passed.
AddHeadersSign(a, request, now) ==
    ClientSignRequest(a._client, request.url, "none", request.body, request.method,
                      a._timestamp, now)

\* Response headers: a mapping from the names present to their values.
NoHeaders == [n \in {} |-> [kind |-> "none"]]
OneHeader(name, value) == [n \in {name} |-> value]
HeadersGet(h, name) == IF name \in DOMAIN h THEN h[name] ELSE [kind |-> "none"]

\* Python truth value of what headers.get returns: None and "" are false.
HeaderTruthy(v) ==
    CASE v.kind = "none" -> FALSE
      [] v.kind = "text" -> v.s # ""
      [] OTHER -> TRUE

PyBool(b) == IF b THEN "True" ELSE "False"

\* build_response: the validSignature attribute set on the response, and the
\* timestamp handed to validateResponse when it is called.
BuildResponse(a, resp) ==
    LET signature == HeadersGet(resp.headers, ClientSignatureHeader(a._client))
    IN IF HeaderTruthy(signature)
       THEN [validSignature |-> PyBool(ClientValidateResponse(a._client, signature,
                                                              resp.text, a._timestamp)),
             validated |-> TRUE, timestamp |-> a._timestamp]
       ELSE [validSignature |-> "None", validated |-> FALSE, timestamp |-> NoneTs]

Exchanges == 1..MaxExchanges

Request == [url |-> "https://h/p?foo=bar", method |-> "GET", body |-> ""]

IdleExchange ==
    [pc |-> "idle", at |-> 0, stamped |-> NoneTs, headers |-> [kind |-> "none"],
     response |-> [headers |-> NoHeaders, text |-> ""],
     validSignature |-> "unset", validated |-> FALSE, timestamp |-> NoneTs]

\* What the server may put in the signature header of its response.
ResponseHeaderChoices == {"absent", "empty", "signed", "wrong key", "text"}

\* The server signs its response with the timestamp of the request it received.
ServerHeaders(choice, name, key, text, requestHeaders) ==
    CASE choice = "absent" -> NoHeaders
      [] choice = "empty" -> OneHeader(name, [kind |-> "text", s |-> ""])
      [] choice = "text" -> OneHeader(name, [kind |-> "text", s |-> "abc"])
      [] choice = "signed" ->
            OneHeader(name, ResponseSignature(key, text, requestHeaders.value.msg.timestamp))
      [] OTHER ->
            OneHeader(name, ResponseSignature("k0", text, requestHeaders.value.msg.timestamp))

\* One exchange runs add_headers (two statements), then build_response.
AdapterAddHeadersStamp(e) ==
    /\ exch[e].pc = "idle"
    /\ adapter' = AddHeadersStamp(adapter, clock)
    /\ exch' = [exch EXCEPT ![e].pc = "signing", ![e].at = clock,
                            ![e].stamped = adapter'._timestamp]
    /\ UNCHANGED <<clientVars, clock, moduleVars>>

AdapterAddHeadersSign(e) ==
    /\ exch[e].pc = "signing"
    /\ exch' = [exch EXCEPT ![e].pc = "sent",
                            ![e].headers = AddHeadersSign(adapter, Request, clock)]
    /\ UNCHANGED <<clientVars, clock, adapter, moduleVars>>

AdapterBuildResponse(e) ==
    /\ exch[e].pc = "sent"
    /\ \E choice \in ResponseHeaderChoices, text \in Bodies :
         LET resp == [headers |-> ServerHeaders(choice, ClientSignatureHeader(adapter._client),
                                                adapter._client._signProtocol.key, text,
                                                exch[e].headers),
                      text |-> text]
             r == BuildResponse(adapter, resp)
         IN exch' = [exch EXCEPT ![e].pc = "done", ![e].response = resp,
                                 ![e].validSignature = r.validSignature,
                                 ![e].validated = r.validated,
                                 ![e].timestamp = r.timestamp]
    /\ UNCHANGED <<clientVars, clock, adapter, moduleVars>>

\* The session reuses the adapter for the next request.
AdapterNextRequest(e) ==
    /\ exch[e].pc = "done"
    /\ exch' = [exch EXCEPT ![e] = IdleExchange]
    /\ UNCHANGED <<clientVars, clock, adapter, moduleVars>>

(***************************************************************************)
(* Module level: __createAdapter and changeBaseHTTPAdapter.                *)
(* A class is its method resolution order, a sequence of class identities; *)
(* a value that is no class carries the order of its own class.            *)
(***************************************************************************)
ObjectId == <<"object", 0>>
HTTPAdapterId == <<"HTTPAdapter", 0>>

HTTPAdapter == [isType |-> TRUE, mro |-> <<HTTPAdapterId, ObjectId>>]
MyAdapter == [isType |-> TRUE, mro |-> <<<<"MyAdapter", 0>>, HTTPAdapterId, ObjectId>>]
ObjectClass == [isType |-> TRUE, mro |-> <<ObjectId>>]
OtherClass == [isType |-> TRUE, mro |-> <<<<"Other", 0>>, ObjectId>>]
AdapterInstance == [isType |-> FALSE, mro |-> <<HTTPAdapterId, ObjectId>>]
StrInstance == [isType |-> FALSE, mro |-> <<<<"str", 0>>, ObjectId>>]

IsSubclass(cls, id) == \E i \in DOMAIN cls.mro : cls.mro[i] = id

\* __createAdapter(cls): a new class SignatureAdapter(cls), the n-th one made.
CreateAdapter(cls, n) == [isType |-> TRUE, mro |-> <<<<"SignatureAdapter", n>>>> \o cls.mro]

\* Faulty variant of ChangeBaseHTTPAdapter: the global statement left out, so
\* the module binding is not rebound.
ChangeBaseNoGlobal(cls, binding, n) ==
    IF ~cls.isType \/ ~IsSubclass(cls, HTTPAdapterId)
    THEN [raised |-> "TypeError", SignatureAdapter |-> binding, returned |-> binding,
          made |-> 0]
    ELSE [raised |-> "none", SignatureAdapter |-> binding,
          returned |-> CreateAdapter(cls, n + 1), made |-> 1]

\* changeBaseHTTPAdapter(cls): what it raises, the binding it leaves and what it returns.
ChangeBaseHTTPAdapter(cls, binding, n) ==
    IF ~cls.isType \/ ~IsSubclass(cls, HTTPAdapterId)
    THEN [raised |-> "TypeError", SignatureAdapter |-> binding, returned |-> binding,
          made |-> 0]
    ELSE [raised |-> "none", SignatureAdapter |-> CreateAdapter(cls, n + 1),
          returned |-> CreateAdapter(cls, n + 1), made |-> 1]

ModuleInitState ==
    /\ SignatureAdapter = CreateAdapter(HTTPAdapter, 0)
    /\ created = 0
    /\ accepted = HTTPAdapter
    /\ modCall = [op |-> "none"]

CallChangeBase ==
    /\ created < MaxClasses
    /\ \E cls \in {HTTPAdapter, MyAdapter, ObjectClass, OtherClass, AdapterInstance,
                   StrInstance, SignatureAdapter} :
         LET r == ChangeBaseHTTPAdapter(cls, SignatureAdapter, created)
         IN /\ SignatureAdapter' = r.SignatureAdapter
            /\ created' = created + r.made
            /\ accepted' = IF r.raised = "none" THEN cls ELSE accepted
            /\ modCall' = [op |-> "changeBaseHTTPAdapter", cls |-> cls,
                           before |-> SignatureAdapter, raised |-> r.raised,
                           returned |-> r.returned]
    /\ UNCHANGED <<clientVars, clock, adapterVars>>

(***************************************************************************)
(* Specifications.                                                         *)
(***************************************************************************)
\* An adapter mounted on a session: SignatureAdapter(signatureKey, ...).
AdapterInitState(keys, selectors) ==
    /\ \E signatureKey \in keys, signatureVersion \in selectors :
         adapter = AdapterInit(signatureKey, "none", signatureVersion)
    /\ exch = [e \in Exchanges |-> IdleExchange]

Init == ClientInitState /\ AdapterInitState({"k1"}, {PyNone}) /\ ModuleInitState

InitAdapter ==
    ClientInitState /\ AdapterInitState(Keys, {PyNone, CustomProtocol}) /\ ModuleInitState

\* A program constructing a SignatureClient and reading from it.
NextConstruct ==
    \/ Construct
    \/ Tick
    \/ ReadSignatureHeader
    \/ GenTimestamp

SpecConstruct == Init /\ [][NextConstruct]_vars

\* A program using every operation of a SignatureClient.
NextClient ==
    \/ ConstructSome
    \/ Tick
    \/ ReadSignatureHeader
    \/ GenTimestamp
    \/ SignRequest
    \/ ValidateResponse

SpecClient == Init /\ [][NextClient]_vars

\* Exchanges on one adapter, free to interleave.
NextAdapter ==
    \/ Tick
    \/ \E e \in Exchanges : AdapterAddHeadersStamp(e)
    \/ \E e \in Exchanges : AdapterAddHeadersSign(e)
    \/ \E e \in Exchanges : AdapterBuildResponse(e)
    \/ \E e \in Exchanges : AdapterNextRequest(e)

SpecAdapter == InitAdapter /\ [][NextAdapter]_vars

\* Strictly sequential use: add_headers starts only when no exchange is in flight.
NoneInFlight == \A e \in Exchanges : exch[e].pc \in {"idle", "done"}

NextSequential ==
    \/ Tick
    \/ \E e \in Exchanges : NoneInFlight /\ AdapterAddHeadersStamp(e)
    \/ \E e \in Exchanges : AdapterAddHeadersSign(e)
    \/ \E e \in Exchanges : AdapterBuildResponse(e)
    \/ \E e \in Exchanges : AdapterNextRequest(e)

SpecSequential == InitAdapter /\ [][NextSequential]_vars

\* Calls of changeBaseHTTPAdapter.
NextModule == CallChangeBase

SpecModule == Init /\ [][NextModule]_vars

Next == NextConstruct \/ NextClient \/ NextAdapter \/ NextModule

Spec == Init /\ [][Next]_vars

(***************************************************************************)
(* Properties.                                                             *)
(***************************************************************************)
Constructed == pc # "init"

RegisteredName(v) == Lower(v.str) \in DOMAIN VersionRegistry("k1", "none")

\* C1: a construction whose signatureVersion is a string that, lowercased, is no
\* registered version identifier raises ValueError and yields no client.
C1_UnknownStringRaises ==
    (Constructed /\ ctor.signatureVersion.kind = "str"
       /\ ~RegisteredName(ctor.signatureVersion))
    => (pc = "failed" /\ ctor.raised = "ValueError" /\ client = NoClient)

IsV1Selector(v) ==
    \/ v.kind = "none"
    \/ v.kind = "str" /\ v.str \in {<<"v", "1">>, <<"V", "1">>}

\* C2: with signatureVersion omitted, "v1" or "V1", the client is bound to a V1
\* instance built from the given signatureKey and baseUrl.
C2_V1Selected ==
    (Constructed /\ IsV1Selector(ctor.signatureVersion))
    => (/\ pc = "ready"
        /\ ctor.v1Built
        /\ client._signProtocol = V1(ctor.signatureKey, ctor.baseUrl))

C2_Witness ==
    /\ pc = "ready"
    /\ ctor.signatureVersion.kind = "str"
    /\ ctor.signatureVersion.str = <<"V", "1">>
    /\ ctor.signatureKey = "k2"
    /\ ctor.baseUrl = "https://h"
    /\ call.op = "SIGNATURE_HEADER"

\* A selector that is neither a version identifier string nor a protocol
\* instance (None stands for the omitted argument).
WrongType(v) ==
    \/ v.kind \in {"int", "bool", "list", "object"}
    \/ v.kind = "str" /\ v.str = <<>>

\* C3: a construction whose version selector has the wrong type raises and
\* yields no client.
C3_WrongTypeRaises ==
    (Constructed /\ WrongType(ctor.signatureVersion))
    => (pc = "failed" /\ ctor.raised = "ValueError" /\ client = NoClient)

\* What signRequest returns on a client bound to protocol p.
SignedBy(p) ==
    /\ signed.result.name = ProtocolHeader(p)
    /\ signed.result.value.key = p.key
    /\ signed.result.value.msg.timestamp.kind = "str"
    /\ signed.timestamp.kind = "str" =>
         signed.result = ProtocolGetHeaders(p, ProtocolSignRequest(
             p, signed.url, signed.method, signed.params, signed.body,
             signed.timestamp, 0))

\* What the last other call returns on a client bound to protocol p.
AnsweredBy(p) ==
    /\ call.op = "SIGNATURE_HEADER" => call.result = ProtocolHeader(p)
    /\ call.op = "genTimestamp" => call.result = ProtocolGenTimestamp(p, call.now)
    /\ call.op = "validateResponse" =>
         call.result = ProtocolValidateResponse(p, call.signature, call.body,
                                                call.timestamp)

\* C4: given a protocol instance as signatureVersion, construction succeeds, the
\* client is bound to that instance, every operation resolves against it, and
\* no V1 instance is built.
C4_InstanceBound ==
    (Constructed /\ IsBaseVersion(ctor.signatureVersion))
    => (/\ pc = "ready"
        /\ client._signProtocol = ctor.signatureVersion
        /\ ~ctor.v1Built
        /\ signed.done => SignedBy(ctor.signatureVersion)
        /\ AnsweredBy(ctor.signatureVersion))

C4_Witness ==
    /\ pc = "ready"
    /\ IsBaseVersion(ctor.signatureVersion)
    /\ ctor.signatureVersion.cls = "Custom"
    /\ ctor.signatureKey = "k1"
    /\ signed.done
    /\ call.op = "validateResponse"
    /\ call.result

\* C5: once a client exists, no step of any operation changes the protocol it
\* is bound to.
C5_BindingNeverChanges == [][pc = "ready" => client' = client]_vars

C5_Witness ==
    /\ pc = "ready"
    /\ signed.done
    /\ call.op = "validateResponse"
    /\ clock > 0

FromSignRequest == call.src \in {"signRequest result", "signRequest header value"}

IsResponseSignature(sig, key, body, timestamp) ==
    /\ sig.kind = "sig"
    /\ sig.msg.form = "response"
    /\ timestamp.kind = "str"
    /\ sig = ResponseSignature(key, body, timestamp)

SignatureHeaderPresent(e) ==
    ClientSignatureHeader(adapter._client) \in DOMAIN exch[e].response.headers

\* C7: validSignature is None exactly when the response carries no signature
\* header, and otherwise the boolean validateResponse returns for the header
\* value, the response text and the timestamp.
C7_TriState ==
    \A e \in Exchanges :
       exch[e].pc = "done"
       => (/\ (exch[e].validSignature = "None") = ~SignatureHeaderPresent(e)
           /\ SignatureHeaderPresent(e) =>
                exch[e].validSignature =
                   PyBool(ClientValidateResponse(
                       adapter._client,
                       exch[e].response.headers[ClientSignatureHeader(adapter._client)],
                       exch[e].response.text, exch[e].timestamp)))

\* The timestamp the request of exchange e was signed with.
SignedTimestamp(e) == exch[e].headers.value.msg.timestamp

\* C8: the timestamp build_response hands to validateResponse is the one the
\* exchange's request was signed with, however exchanges interleave.
C8_SameTimestamp ==
    \A e \in Exchanges :
       (exch[e].pc = "done" /\ exch[e].validated)
       => exch[e].timestamp = SignedTimestamp(e)

\* C9: in sequential use add_headers stamps the adapter with a timestamp read
\* from the clock at that moment, signs with exactly it, and build_response
\* validates with it; no earlier exchange's timestamp is used.
C9_SequentialTimestamp ==
    \A e \in Exchanges :
       /\ exch[e].pc \in {"signing", "sent"} =>
            /\ exch[e].stamped = ProtocolGenTimestamp(adapter._client._signProtocol,
                                                      exch[e].at)
            /\ adapter._timestamp = exch[e].stamped
       /\ exch[e].pc \in {"sent", "done"} => SignedTimestamp(e) = exch[e].stamped
       /\ (exch[e].pc = "done" /\ exch[e].validated) =>
            /\ exch[e].timestamp.kind = "str"
            /\ exch[e].timestamp = ProtocolGenTimestamp(adapter._client._signProtocol,
                                                        exch[e].at)

C9_Witness ==
    \E e, f \in Exchanges :
       /\ e # f
       /\ exch[e].pc = "done" /\ exch[e].validated /\ exch[e].validSignature = "True"
       /\ exch[f].pc = "done" /\ exch[f].validated /\ exch[f].validSignature = "True"
       /\ exch[e].timestamp # exch[f].timestamp

AcceptedClass(cls) == cls.isType /\ IsSubclass(cls, HTTPAdapterId)

\* C10: changeBaseHTTPAdapter raises TypeError and leaves the binding alone
\* unless cls is a class below HTTPAdapter; otherwise it rebinds SignatureAdapter
\* to a new class derived from cls and returns it.  The binding is always the
\* class built from the last accepted cls, or from HTTPAdapter.
C10_ChangeBase ==
    /\ Tail(SignatureAdapter.mro) = accepted.mro
    /\ modCall.op = "changeBaseHTTPAdapter" =>
         IF AcceptedClass(modCall.cls)
         THEN /\ modCall.raised = "none"
              /\ SignatureAdapter = modCall.returned
              /\ SignatureAdapter # modCall.before
              /\ Tail(SignatureAdapter.mro) = modCall.cls.mro
              /\ Head(SignatureAdapter.mro)[1] = "SignatureAdapter"
         ELSE /\ modCall.raised = "TypeError"
              /\ SignatureAdapter = modCall.before

C10_Witness ==
    /\ modCall.op = "changeBaseHTTPAdapter"
    /\ modCall.raised = "TypeError"
    /\ accepted = MyAdapter
    /\ created >= 2

=============================================================================
